---- MODULE Spec2Model ----
(***************************************************************************)
(* The posts API (src/posts/api.py): five Flask views over one table of    *)
(* posts, a JSON-schema check on write payloads, and the accept / require  *)
(* decorators in front of some of the views.                               *)
(*                                                                         *)
(* Python values keep their dynamic type: a JSON value is a record with a  *)
(* `kind`; a Python string is a sequence of one-character strings, so that *)
(* LIKE matching and containment are computed character by character.      *)
(***************************************************************************)
EXTENDS Integers, Sequences, FiniteSets, TLC

VARIABLES
    posts,      \* the rows of table `posts`: records [id, title, body]
    before,     \* history: the rows as they were when the last request arrived
    req,        \* the last request served
    resp,       \* the response it got
    called      \* whether the body of the view function ran for it

vars == <<posts, before, req, resp, called>>

(* ------------------------------ bounds --------------------------------- *)

\* ids range over 1..MaxId
MaxId == 2

(* --------------------------- input domains ----------------------------- *)

Titles == {<<"a">>, <<"A", "b">>}
Bodies == {<<>>, <<"b">>}
TitleLikes == {<<>>, <<"a">>, <<"_">>}
BodyLikes == {<<"b">>, <<"%">>}
AcceptHeaders == {"application/json", "*/*", "application/xml"}
Ids == 1..MaxId
(* ---------------------------- JSON values ------------------------------ *)

JNull == [kind |-> "null"]
JNum(n) == [kind |-> "number", val |-> n]
JStr(s) == [kind |-> "string", val |-> s]
JArr(items) == [kind |-> "array", items |-> items]
JObj(f) == [kind |-> "object", fields |-> f]

\* what a client may put in the title and body fields: a number or a string
TitleVals == {JNum(32)} \cup {JStr(s) : s \in Titles}
BodyVals == {JNum(32)} \cup {JStr(s) : s \in Bodies}

\* the payloads a client may send: objects with either field missing, a number
\* or a string, and the non-object JSON values
Payloads ==
    {JObj(g) : g \in UNION {{h \in [D -> TitleVals \cup BodyVals] :
                               \A k \in D : h[k] \in (IF k = "title" THEN TitleVals
                                                                     ELSE BodyVals)} :
                            D \in SUBSET {"title", "body"}}}
      \cup {JNull, JNum(32), JStr(<<"a">>), JArr(<<>>)}

\* the bodies sent under the two content types: every payload as JSON, and a
\* valid object, an invalid object and null mislabelled as XML
Bodies_xml ==
    {JObj([title |-> JStr(<<"a">>), body |-> JStr(<<"b">>)]),
     JObj([title |-> JStr(<<"a">>)]),
     JNull}

Contents ==
    {[content_type |-> "application/json", payload |-> d] : d \in Payloads}
      \cup {[content_type |-> "application/xml", payload |-> d] : d \in Bodies_xml}

\* the query strings of GET /api/posts: each of title_like, body_like given or not
QueryArgs ==
    UNION {{h \in [D -> TitleLikes \cup BodyLikes] :
              \A k \in D : h[k] \in (IF k = "title_like" THEN TitleLikes ELSE BodyLikes)} :
           D \in SUBSET {"title_like", "body_like"}}

(* ------------------------- responses, outcomes ------------------------- *)

NoHeaders == [k \in {} |-> <<>>]

\* flask.Response(data, status, headers=..., mimetype="application/json")
Response(data, status, headers) ==
    [data |-> data, status |-> status, headers |-> headers,
     mimetype |-> "application/json", raised |-> "none"]

\* json.dumps({"message": message})
MessageData(message) == JObj([message |-> JStr(message)])

\* what serving a request leaves behind: the rows, the response, and whether
\* the body of the view function ran
Outcome(rows, response, ran) == [posts |-> rows, resp |-> response, called |-> ran]

\* an exception no handler catches: the framework answers 500 and the view's
\* remaining statements do not run
Raise(rows, exc) ==
    Outcome(rows,
            [data |-> JNull, status |-> 500, headers |-> NoHeaders,
             mimetype |-> "text/html", raised |-> exc],
            TRUE)

(* ----------------------- the persistence layer ------------------------- *)

\* query_get gone wrong: .first() in place of .get(id)
query_first(rows, id) ==
    {p \in rows : \A q \in rows : p.id <= q.id}

\* session.query(models.Post).get(id): the row with that primary key, as a
\* set of at most one row (the empty set is Python's None)
query_get(rows, id) == {p \in rows : p.id = id}

\* LIKE: % matches any run of characters, _ any one character, anything else
\* itself (case-sensitively)
RECURSIVE Like(_, _)
Like(s, pattern) ==
    IF pattern = <<>> THEN s = <<>>
    ELSE IF Head(pattern) = "%"
         THEN Like(s, Tail(pattern)) \/ (s # <<>> /\ Like(Tail(s), pattern))
         ELSE /\ s # <<>>
              /\ (Head(pattern) = "_" \/ Head(pattern) = Head(s))
              /\ Like(Tail(s), Tail(pattern))

\* column.contains(other): column LIKE '%' || other || '%', other not escaped
contains(column, other) ==
    column.kind = "string" /\ Like(column.val, <<"%">> \o other \o <<"%">>)

\* query.order_by(models.Post.id), iterated: the rows in ascending id order
RECURSIVE order_by_id(_)
order_by_id(rows) ==
    IF rows = {} THEN <<>>
    ELSE LET first == CHOOSE p \in rows : \A q \in rows : p.id <= q.id
         IN  <<first>> \o order_by_id(rows \ {first})

\* the id the table gives a row inserted without one
autoincrement(rows) ==
    IF rows = {} THEN 1
    ELSE (CHOOSE n \in {p.id : p \in rows} : \A p \in rows : p.id <= n) + 1

\* models.Post(title=..., body=..., id=...)
Post(id, title, body) == [id |-> id, title |-> title, body |-> body]

\* Post.as_dictionary()
as_dictionary(post) ==
    JObj([id |-> JNum(post.id), title |-> post.title, body |-> post.body])

\* session_delete gone wrong: the delete is never committed
session_delete_uncommitted(rows, found) ==
    IF found = {} THEN [exc |-> "UnmappedInstanceError", rows |-> rows]
    ELSE [exc |-> "none", rows |-> rows]

\* session.delete(post); session.commit(): the session refuses None, which is
\* no mapped instance
session_delete(rows, found) ==
    IF found = {} THEN [exc |-> "UnmappedInstanceError", rows |-> rows]
    ELSE [exc |-> "none", rows |-> rows \ found]

(* --------------------------- the decorators ---------------------------- *)

\* decorators.accept(mimetype): 406 unless the Accept header admits it
accept(mimetype, request, rows, outcomes) ==
    IF request.accept = mimetype \/ request.accept = "*/*" THEN outcomes
    ELSE {Outcome(rows,
                  Response(MessageData(<<"Request must accept ", mimetype, " data">>),
                           406, NoHeaders),
                  FALSE)}

\* decorators.require(mimetype): 415 unless the Content-Type is exactly it
require(mimetype, request, rows, outcomes) ==
    IF request.content_type = mimetype THEN outcomes
    ELSE {Outcome(rows,
                  Response(MessageData(<<"Request must contain ", mimetype, " data">>),
                           415, NoHeaders),
                  FALSE)}

(* ---------------------------- validation ------------------------------- *)

\* post_schema gone wrong: no type given for body
post_schema_untyped_body ==
    [properties |-> [title |-> [type |-> "string"]],
     required |-> {"title", "body"}]

post_schema ==
    [properties |-> [title |-> [type |-> "string"], body |-> [type |-> "string"]],
     required |-> {"title", "body"}]

\* repr() of a JSON value, as the schema library prints it in a message
py_repr(v) ==
    IF v.kind = "number" THEN ToString(v.val)
    ELSE IF v.kind = "null" THEN "None" ELSE "..."

\* jsonschema.validate(instance, schema): the messages of the violations, one
\* of which is raised as ValidationError; none when the instance is valid.
\* `properties` and `required` constrain objects only: with no "type" keyword
\* in the schema, an instance that is no object violates nothing.
validate(instance, schema) ==
    IF instance.kind # "object" THEN {}
    ELSE {<<py_repr(instance.fields[k]), " is not of type '",
            schema.properties[k].type, "'">> :
              k \in {j \in DOMAIN instance.fields \cap DOMAIN schema.properties :
                        instance.fields[j].kind # schema.properties[j].type}}
         \cup {<<"'", k, "' is a required property">> :
                 k \in schema.required \ DOMAIN instance.fields}

\* data[key] in Python: "none" when it yields a value, else the exception's name
getitem_exc(data, key) ==
    IF data.kind # "object" THEN "TypeError"
    ELSE IF key \notin DOMAIN data.fields THEN "KeyError" ELSE "none"

\* request.json: the parsed body when the Content-Type is JSON, else None
request_json(request) ==
    IF request.content_type = "application/json" THEN request.payload ELSE JNull

\* url_for("post_get", id=id): the path of rule /api/posts/<int:id>
url_for_post_get(id) == <<"api", "posts", ToString(id)>>

(* ------------------------- the view functions -------------------------- *)

\* `if title_like:` -- None (argument not given) and "" are both false
given(args, key) == key \in DOMAIN args /\ args[key] # <<>>

\* posts.filter(models.Post.title.contains(title_like)), when title_like is given
filter_title(rows, args) ==
    IF given(args, "title_like")
    THEN {p \in rows : contains(p.title, args["title_like"])}
    ELSE rows

\* posts.filter(models.Post.body.contains(body_like)), when body_like is given
filter_body(rows, args) ==
    IF given(args, "body_like")
    THEN {p \in rows : contains(p.body, args["body_like"])}
    ELSE rows

\* def posts_get()
posts_get(rows, args) ==
    LET listed == order_by_id(filter_body(filter_title(rows, args), args))
        data == JArr([i \in 1..Len(listed) |-> as_dictionary(listed[i])])
    IN  {Outcome(rows, Response(data, 200, NoHeaders), TRUE)}

\* except ValidationError as error: the 422 answers, one per message the
\* library may raise
unprocessable(rows, errors) ==
    {Outcome(rows, Response(MessageData(m), 422, NoHeaders), TRUE) : m \in errors}

\* session_add gone wrong: the body stored as the title too
session_add_body_as_title(rows, title, body) ==
    rows \cup {Post(autoincrement(rows), body, body)}

\* session.add(post); session.commit() for a post built without an id
session_add(rows, title, body) ==
    rows \cup {Post(autoincrement(rows), title, body)}

\* def posts_post()
posts_post(rows, data) ==
    LET errors == validate(data, post_schema) IN
    IF errors # {} THEN unprocessable(rows, errors)
    ELSE IF getitem_exc(data, "title") # "none" THEN {Raise(rows, getitem_exc(data, "title"))}
    ELSE IF getitem_exc(data, "body") # "none" THEN {Raise(rows, getitem_exc(data, "body"))}
    ELSE LET added == session_add(rows, data.fields["title"], data.fields["body"])
         IN  {Outcome(added,
                      Response(as_dictionary(post), 201,
                               [Location |-> url_for_post_get(post.id)]),
                      TRUE) : post \in added \ rows}

\* "Could not find post with id {}".format(id)
not_found(id) == <<"Could not find post with id ", ToString(id)>>

\* def post_get(id)
post_get(rows, id) ==
    LET post == query_get(rows, id) IN
    IF post = {}
    THEN {Outcome(rows, Response(MessageData(not_found(id)), 404, NoHeaders), TRUE)}
    ELSE {Outcome(rows, Response(as_dictionary(p), 200, NoHeaders), TRUE) : p \in post}

\* "{} has been deleted successfully".format(id)
deleted(id) == <<ToString(id), " has been deleted successfully">>

\* def post_delete(id)
post_delete(rows, id) ==
    LET done == session_delete(rows, query_get(rows, id)) IN
    IF done.exc # "none" THEN {Raise(rows, done.exc)}
    ELSE {Outcome(done.rows, Response(MessageData(deleted(id)), 200, NoHeaders), TRUE)}

\* new_post = models.Post(title=..., body=..., id=id); session.add; session.commit
put_create(rows, id, data) ==
    rows \cup {Post(id, data.fields["title"], data.fields["body"])}

\* put_update gone wrong: the body is not assigned
put_update_title_only(rows, post, data) ==
    (rows \ {post}) \cup {Post(post.id, data.fields["title"], post.body)}

\* post.title = data["title"]; post.body = data["body"]; session.commit()
put_update(rows, post, data) ==
    (rows \ {post}) \cup {Post(post.id, data.fields["title"], data.fields["body"])}

\* def post_put(id)
post_put(rows, id, data) ==
    LET errors == validate(data, post_schema)
        found == query_get(rows, id)
    IN
    IF errors # {} THEN unprocessable(rows, errors)
    ELSE IF getitem_exc(data, "title") # "none" THEN {Raise(rows, getitem_exc(data, "title"))}
    ELSE IF getitem_exc(data, "body") # "none" THEN {Raise(rows, getitem_exc(data, "body"))}
    ELSE IF found = {}
    THEN {Outcome(put_create(rows, id, data),
                  Response(MessageData(<<"New post has been added with Title: ">>
                                          \o data.fields["title"].val),
                           201, NoHeaders),
                  TRUE)}
    ELSE {Outcome(put_update(rows, post, data),
                  Response(MessageData(<<"Post has been updated">>), 200, NoHeaders),
                  TRUE) : post \in found}

(* ------------------- the views as the routes reach them ---------------- *)

\* GET /api/posts: app.route registers posts_get wrapped in accept
route_posts_get(rows, request) ==
    accept("application/json", request, rows, posts_get(rows, request.args))

\* route_posts_post gone wrong: the require decorator left out
route_posts_post_unguarded(rows, request) ==
    posts_post(rows, request_json(request))

\* POST /api/posts: app.route registers posts_post wrapped in require (and
\* in nothing else: there is no accept decorator on this view)
route_posts_post(rows, request) ==
    require("application/json", request, rows, posts_post(rows, request_json(request)))

\* GET /api/posts/<int:id>: app.route is the inner decorator, so it registers
\* the bare post_get; the accept wrapper built around it afterwards is bound
\* to the module name only and no request reaches it
route_post_get(rows, request) == post_get(rows, request.id)

\* DELETE /api/posts/<int:id>
route_post_delete(rows, request) == post_delete(rows, request.id)

\* PUT /api/posts/<int:id>
route_post_put(rows, request) == post_put(rows, request.id, request_json(request))

(* ------------------------------ behaviour ------------------------------ *)

NoRequest == [op |-> "none"]

Init ==
    /\ posts = {}
    /\ before = {}
    /\ req = NoRequest
    /\ resp = Response(JNull, 0, NoHeaders)
    /\ called = FALSE

\* one request served to completion: requests are handled one at a time
Serve(request, outcomes) ==
    \E o \in outcomes :
        /\ \A p \in o.posts : p.id \in Ids
        /\ posts' = o.posts
        /\ before' = posts
        /\ req' = request
        /\ resp' = o.resp
        /\ called' = o.called

GetPosts ==
    \E a \in AcceptHeaders, args \in QueryArgs :
        LET request == [op |-> "posts_get", accept |-> a, args |-> args]
        IN  Serve(request, route_posts_get(posts, request))

PostPosts ==
    \E a \in AcceptHeaders \ {"*/*"}, c \in Contents :
        LET request == [op |-> "posts_post", accept |-> a,
                        content_type |-> c.content_type, payload |-> c.payload]
        IN  Serve(request, route_posts_post(posts, request))

GetPost ==
    \E a \in AcceptHeaders \ {"*/*"}, id \in Ids :
        LET request == [op |-> "post_get", accept |-> a, id |-> id]
        IN  Serve(request, route_post_get(posts, request))

DeletePost ==
    \E id \in Ids :
        LET request == [op |-> "post_delete", id |-> id]
        IN  Serve(request, route_post_delete(posts, request))

PutPost ==
    \E id \in Ids, c \in Contents :
        LET request == [op |-> "post_put", id |-> id,
                        content_type |-> c.content_type, payload |-> c.payload]
        IN  Serve(request, route_post_put(posts, request))

Next == GetPosts \/ PostPosts \/ GetPost \/ DeletePost \/ PutPost

Spec == Init /\ [][Next]_vars

(* ------------------------ vocabulary of the claims --------------------- *)

ids(rows) == {p.id : p \in rows}

Json == "application/json"

\* the Accept header admits application/json: that type itself, or */*
Admits(header) == header \in {"application/json", "*/*"}

\* a JSON object with a string title and a string body
ValidPayload(d) ==
    /\ d.kind = "object"
    /\ {"title", "body"} \subseteq DOMAIN d.fields
    /\ d.fields["title"].kind = "string"
    /\ d.fields["body"].kind = "string"

\* the response body is a JSON object with a string `message`
HasMessage(r) ==
    /\ r.data.kind = "object"
    /\ "message" \in DOMAIN r.data.fields
    /\ r.data.fields["message"].kind = "string"

\* the response body is a JSON object whose `message` is this text
SaysMessage(r, text) == HasMessage(r) /\ r.data.fields["message"].val = text

\* the id that path /api/posts/<id> addresses on the Get endpoint, if any
GetEndpointIds(path) == {n \in Ids : path = <<"api", "posts", ToString(n)>>}

\* sub occurs in s as a run of consecutive characters
IsSubstring(sub, s) ==
    \E i \in 0..(Len(s) - Len(sub)) : SubSeq(s, i + 1, i + Len(sub)) = sub

\* GET /api/posts/<id> answers 404 on these rows
Answers404(rows, id) ==
    \A o \in route_post_get(rows, [op |-> "post_get", accept |-> Json, id |-> id]) :
        o.resp.status = 404

\* the ids GET /api/posts lists on these rows, with no filter
ListedIds(rows) ==
    UNION {{o.resp.data.items[i].fields.id.val : i \in 1..Len(o.resp.data.items)} :
              o \in route_posts_get(rows, [op |-> "posts_get", accept |-> Json,
                                           args |-> [k \in {} |-> <<>>]])}

(* ------------------------------- claims -------------------------------- *)

\* C1: on GET /posts, GET /posts/{id} and POST /posts, a request whose Accept
\* header admits neither application/json nor */* is answered 406 with message
\* "Request must accept application/json data", the view function does not
\* run, and the stored posts are unchanged.
C1_NotAcceptableIs406 ==
    (req.op \in {"posts_get", "post_get", "posts_post"} /\ ~Admits(req.accept))
    => /\ resp.status = 406
       /\ SaysMessage(resp, <<"Request must accept ", "application/json", " data">>)
       /\ ~called
       /\ posts = before

\* C2: POST /posts and PUT /posts/{id} whose payload is anything but a JSON
\* object with a string title and a string body are answered 422 with a
\* message, and the stored posts are what they were before the request.
C2_InvalidPayloadIs422 ==
    (/\ req.op \in {"posts_post", "post_put"}
     /\ req.content_type = Json
     /\ (req.op = "posts_post" => Admits(req.accept))
     /\ ~ValidPayload(req.payload))
    => /\ resp.status = 422
       /\ HasMessage(resp)
       /\ posts = before

\* C3: DELETE /posts/{id} for an id not in the store returns 200 with message
\* "{id} has been deleted successfully", raises nothing, and leaves the stored
\* posts unchanged.
C3_DeleteAbsentSucceeds ==
    (req.op = "post_delete" /\ req.id \notin ids(before))
    => /\ resp.status = 200
       /\ SaysMessage(resp, <<ToString(req.id), " has been deleted successfully">>)
       /\ resp.raised = "none"
       /\ posts = before

\* C4: POST /posts with a valid payload and Content-Type application/json
\* returns 201, adds exactly one post, whose id was not in the store and whose
\* title and body are the payload's, leaves every other post as it was,
\* echoes the new post in the response body, and sets a Location that
\* addresses the Get endpoint for the new id; GET /posts/{id} and GET /posts
\* then return the new post.
C4_PostCreates ==
    (req.op = "posts_post" /\ req.content_type = Json /\ ValidPayload(req.payload))
    => /\ resp.status = 201
       /\ \E p \in posts :
            /\ p.id \notin ids(before)
            /\ posts = before \cup {p}
            /\ Cardinality(posts) = Cardinality(before) + 1
            /\ p.title = req.payload.fields["title"]
            /\ p.body = req.payload.fields["body"]
            /\ resp.data = JObj([id |-> JNum(p.id), title |-> req.payload.fields["title"],
                                 body |-> req.payload.fields["body"]])
            /\ "Location" \in DOMAIN resp.headers
            /\ GetEndpointIds(resp.headers["Location"]) = {p.id}
            /\ \A o \in route_post_get(posts, [op |-> "post_get", accept |-> Json,
                                               id |-> p.id]) :
                   o.resp.status = 200 /\ o.resp.data = resp.data
            /\ p.id \in ListedIds(posts)

C4_Witness ==
    /\ req.op = "posts_post"
    /\ req.content_type = Json
    /\ ValidPayload(req.payload)
    /\ resp.status = 201
    /\ before # {}

\* C5: PUT /posts/{id} with a valid payload (request.json is what the view
\* validates, so the payload is one sent as application/json): when no post
\* has that id, 201 and the store gains exactly one post, with that id and the
\* payload's title and body; when one has, 200 and its title and body become
\* the payload's, its id and the number of posts staying the same; either way
\* every post with another id is unchanged.
C5_PutCreatesOrUpdates ==
    (req.op = "post_put" /\ req.content_type = Json /\ ValidPayload(req.payload))
    => LET put == [id |-> req.id, title |-> req.payload.fields["title"],
                   body |-> req.payload.fields["body"]]
       IN  /\ {p \in posts : p.id # req.id} = {p \in before : p.id # req.id}
           /\ {p \in posts : p.id = req.id} = {put}
           /\ IF req.id \in ids(before)
              THEN resp.status = 200 /\ Cardinality(posts) = Cardinality(before)
              ELSE resp.status = 201 /\ Cardinality(posts) = Cardinality(before) + 1

C5_WitnessUpdate ==
    /\ req.op = "post_put"
    /\ req.content_type = Json
    /\ ValidPayload(req.payload)
    /\ req.id \in ids(before)
    /\ Cardinality(before) = 2
    /\ posts # before

\* C6: GET /posts with an acceptable Accept header returns 200 and exactly the
\* stored posts whose title contains title_like (when given and not empty) and
\* whose body contains body_like (when given and not empty), in strictly
\* ascending id order; containment is a case-sensitive substring match.
C6_ListIsSubstringFilter ==
    (req.op = "posts_get" /\ Admits(req.accept))
    => /\ resp.status = 200
       /\ resp.data.kind = "array"
       /\ LET items == resp.data.items
              wanted == {p \in posts :
                          /\ (given(req.args, "title_like")
                                => IsSubstring(req.args["title_like"], p.title.val))
                          /\ (given(req.args, "body_like")
                                => IsSubstring(req.args["body_like"], p.body.val))}
          IN  /\ {items[i] : i \in 1..Len(items)} = {as_dictionary(p) : p \in wanted}
              /\ \A i \in 1..Len(items), j \in 1..Len(items) :
                    i < j => items[i].fields.id.val < items[j].fields.id.val

\* C7: DELETE /posts/{id} for an id in the store returns 200 with message
\* "{id} has been deleted successfully" and removes exactly that post; and as
\* long as no post has a given id, GET /posts does not list it and
\* GET /posts/{id} returns 404.
C7_DeleteRemoves ==
    /\ (req.op = "post_delete" /\ req.id \in ids(before))
       => /\ resp.status = 200
          /\ SaysMessage(resp, <<ToString(req.id), " has been deleted successfully">>)
          /\ posts = {p \in before : p.id # req.id}
          /\ Cardinality(posts) = Cardinality(before) - 1
    /\ \A id \in Ids \ ids(posts) : Answers404(posts, id) /\ id \notin ListedIds(posts)

C7_Witness ==
    /\ req.op = "post_delete"
    /\ req.id \in ids(before)
    /\ resp.status = 200
    /\ posts # {}

\* C8: POST /posts whose Content-Type is not exactly application/json is
\* answered 415 with message "Request must contain application/json data"
\* before the view function runs; the store is unchanged whatever the body is.
C8_WrongContentTypeIs415 ==
    (req.op = "posts_post" /\ req.content_type # Json)
    => /\ resp.status = 415
       /\ SaysMessage(resp, <<"Request must contain ", "application/json", " data">>)
       /\ ~called
       /\ posts = before

C8_Witness ==
    /\ req.op = "posts_post"
    /\ req.content_type # Json
    /\ ValidPayload(req.payload)
    /\ resp.status = 415

\* C9: GET /posts/{id} returns 200 with the stored id, title and body when a
\* post has that id, and 404 with message "Could not find post with id {id}"
\* when none has; the store is unchanged, and the same request again returns
\* the same status and body.
C9_GetOne ==
    req.op = "post_get"
    => /\ posts = before
       /\ IF req.id \in ids(before)
          THEN /\ resp.status = 200
               /\ \E p \in before :
                    /\ p.id = req.id
                    /\ resp.data = JObj([id |-> JNum(req.id), title |-> p.title,
                                         body |-> p.body])
          ELSE /\ resp.status = 404
               /\ SaysMessage(resp, <<"Could not find post with id ", ToString(req.id)>>)
       /\ \A o \in route_post_get(posts, req) :
            /\ o.posts = posts
            /\ o.resp.status = resp.status
            /\ o.resp.data = resp.data

C9_Witness ==
    /\ req.op = "post_get"
    /\ resp.status = 200
    /\ Cardinality(posts) = 2
    /\ req.id = 2

\* C10: whatever requests were served, every stored post has a string title
\* and a string body, no two stored posts share an id, and no request changes
\* the id of a post that stays: a request adds at most one id (POST a new one,
\* PUT the one it names), removes at most the one DELETE names, and never
\* does both.
C10_StoreInvariant ==
    /\ \A p \in posts : p.title.kind = "string" /\ p.body.kind = "string"
    /\ \A p \in posts, q \in posts : p.id = q.id => p = q
    /\ Cardinality(ids(posts) \ ids(before)) <= 1
    /\ ids(posts) \ ids(before) # {} =>
          /\ req.op \in {"posts_post", "post_put"}
          /\ ids(before) \subseteq ids(posts)
          /\ (req.op = "post_put" => ids(posts) \ ids(before) = {req.id})
    /\ ids(before) \ ids(posts) # {} =>
          /\ req.op = "post_delete"
          /\ ids(before) \ ids(posts) = {req.id}

C10_Witness ==
    /\ req.op = "posts_post"
    /\ resp.status = 201
    /\ Cardinality(posts) = 2
    /\ \E p \in before : p.id = 1

====
